---- MODULE Spec2Model ----
(***************************************************************************)
(* DropbotDxPlugin (src/__init__.py): the step execution coordinator of    *)
(* the DropBot DX plugin, its board link (connect / on_flash_firmware /    *)
(* on_plugin_disable) and the gobject timer that re-enters it.             *)
(*                                                                         *)
(* The program is single threaded: every handler runs to completion, so    *)
(* each handler is one action.  The collaborators that are not part of the *)
(* repository (dx.SerialProxy, DstatRemote, gobject, yesno,                *)
(* upload_firmware) are modelled at the call site: what a call returns, or *)
(* that it raises, is an input of the action chosen with \E.               *)
(*                                                                         *)
(* emit_signal('on_step_complete', ...) is assumed to return normally.     *)
(***************************************************************************)
EXTENDS Integers, Sequences, FiniteSets, TLC

\* ------------------------------------------------------------------ bounds
\* Number of on_step_run invocations explored.
MaxSteps == 2
\* Number of nested connect() calls explored (connect -> on_flash_firmware
\* -> connect ...).
MaxConnectAttempts == 2

\* --------------------------------------------------------------- constants
\* Python's None for timeout_id and dstat_remote (handles are 1, 2, ...).
None == 0
\* self.dropbot_dx_remote is None.
NoRemote == "None"

VARIABLES
    timeout_id,         \* self.timeout_id: None or a timer handle
    dstat_remote,       \* self.dstat_remote: None or a session
    dropbot_dx_remote,  \* self.dropbot_dx_remote: "None", "live", "terminated"
    initialized,        \* self.initialized
    enabled,            \* host: the plugin is enabled (receives on_step_run)
    timers,             \* gobject: the registered timeout sources
    board,              \* device: [light, magnet] actuator state
    step,               \* host: number of on_step_run invocations so far
    emitted,            \* host: on_step_complete values since the last on_step_run
    outcomes,           \* host: per step, the values emitted by its own code path
    applyFailed,        \* steps whose update_state call returned false
    last,               \* the handler that ran last, with its inputs
    calls,              \* the calls the last handler made, in order
    raised,             \* the last handler ended by propagating an exception
    dialog              \* connect() waits in yesno(): 0, or the pass asking

vars == <<timeout_id, dstat_remote, dropbot_dx_remote, initialized, enabled,
          timers, board, step, emitted, outcomes, applyFailed, last, calls,
          raised, dialog>>

Steps == 1..MaxSteps

\* One entry of the call log: operation, two arguments, result.
Ev(op, a, b, r) == <<op, a, b, r>>
Emit(v) == Ev("emit", v, "-", "-")
BoolStr(b) == IF b THEN "True" ELSE "False"

Range(s) == {s[i] : i \in 1..Len(s)}
Emits(s) == {i \in 1..Len(s) : s[i][1] = "emit"}
\* The values of the "emit" entries of a call log, in order.
RECURSIVE EmittedBy(_)
EmittedBy(s) ==
    IF s = <<>> THEN <<>>
    ELSE IF Head(s)[1] = "emit" THEN <<Head(s)[2]>> \o EmittedBy(Tail(s))
    ELSE EmittedBy(Tail(s))

\* ------------------------------------------------------------- board link
\* connected() that takes any value of the attribute for a handle.
connected_Always(remote) == TRUE

connected(remote) == remote # NoRemote

\* What update_state can answer on a handle: a terminated proxy has no
\* transport left, a missing one (None) is an AttributeError.
UpdateResults(remote) ==
    IF remote = "live" THEN {"true", "false", "raise"} ELSE {"raise"}

\* The device changes its actuators only when update_state returns true.
BoardAfter(b, light, magnet, result) ==
    IF result = "true" THEN [light |-> light, magnet |-> magnet] ELSE b

\* ---------------------------------------------------------------- connect
\* One pass through connect(): how SerialProxy() ends, whether the firmware
\* version equals the driver version, the user's answer, how the flash ends
\* and how the closing update_state(light_enabled=True) ends ("true": it
\* returns, and the light is on; connect() does not read what it returns).
Attempts ==
    {a \in [open : {"ok", "ioerror"}, match : BOOLEAN, yes : BOOLEAN,
            flash : {"ok", "nofirmware", "uploadfail"},
            light : {"true", "ioerror"}] :
        \* an input the pass never reads has one value
        /\ a.open = "ioerror" => a.match /\ a.light = "true"
        /\ a.match => ~a.yes
        /\ ~a.yes => a.flash = "ok"
        /\ a.flash # "ok" => a.light = "true"}

\* This pass goes on to a nested connect() (flash done, reconnect).
Reconnects(a) == a.open = "ok" /\ ~a.match /\ a.yes /\ a.flash = "ok"

\* The inputs of one connect() call: the passes of the nested calls, every
\* pass but the last one reconnecting.
RECURSIVE PassesFrom(_)
PassesFrom(n) ==
    IF n = 1 THEN {<<a>> : a \in {b \in Attempts : ~Reconnects(b)}}
    ELSE {<<a>> : a \in {b \in Attempts : ~Reconnects(b)}}
         \cup {<<a>> \o rest : a \in {b \in Attempts : Reconnects(b)},
                               rest \in PassesFrom(n - 1)}

\* The pass returns to its caller with the board connected.
Connects(a) == a.open = "ok" /\ (a.match \/ ~a.yes)

\* The closing update_state of an outer pass is reached only when the
\* innermost pass connects: otherwise it has one value.
ConnectInputs ==
    {as \in PassesFrom(MaxConnectAttempts) :
        \A i \in 1..(Len(as) - 1) :
            as[i].light = "true" \/ Connects(as[Len(as)])}

RECURSIVE connect(_, _)
\* on_flash_firmware, called from connect() with the passes as; the result
\* is [remote, raised, calls].
on_flash_firmware(remote, as) ==
    LET a == Head(as) IN
    IF a.flash = "nofirmware" THEN
        \* dx.get_firmwares().keys()[0] on an empty mapping: IndexError
        [remote |-> remote, raised |-> TRUE,
         calls |-> <<Ev("get_firmwares", "-", "-", "raise")>>]
    ELSE IF a.flash = "uploadfail" THEN
        [remote |-> NoRemote, raised |-> TRUE,
         calls |-> <<Ev("get_firmwares", "-", "-", "ok"),
                     Ev("upload_firmware", "-", "-", "raise")>>]
    ELSE
        LET sub == connect(NoRemote, Tail(as)) IN
        [remote |-> sub.remote, raised |-> sub.raised,
         calls |-> <<Ev("get_firmwares", "-", "-", "ok"),
                     Ev("upload_firmware", "-", "-", "ok"),
                     Ev("connect", "-", "-", "-")>> \o sub.calls]

\* connect(): the result is [remote, raised, calls]; only IOError is caught.
connect(remote, as) ==
    LET a == Head(as) IN
    IF a.open = "ioerror" THEN
        [remote |-> remote, raised |-> FALSE,
         calls |-> <<Ev("SerialProxy", "-", "-", "ioerror")>>]
    ELSE
        LET opened == <<Ev("SerialProxy", "-", "-", "ok")>>
            f == IF ~a.match /\ a.yes
                 THEN LET r == on_flash_firmware("live", as)
                      IN  [r EXCEPT !.calls = opened
                                       \o <<Ev("yesno", "-", "-", "yes")>> \o @]
                 ELSE [remote |-> "live", raised |-> FALSE,
                       calls |-> opened \o
                                 (IF a.match THEN <<>>
                                  ELSE <<Ev("yesno", "-", "-", "no")>>)]
        IN  IF f.raised THEN f
            ELSE IF f.remote = NoRemote THEN
                \* None.update_state: AttributeError, not an IOError
                [f EXCEPT !.raised = TRUE]
            ELSE [f EXCEPT !.calls = @ \o
                      <<Ev("update_state", "True", "unchanged", a.light)>>]

\* The light after connect(): on when some update_state returned true.
LightAfter(b, cs) ==
    IF Ev("update_state", "True", "unchanged", "true") \in Range(cs)
    THEN [b EXCEPT !.light = TRUE] ELSE b

\* ------------------------------------------------------------ on_step_run
\* on_step_run without the source_remove of the previous timer.
CancelPrevious_Keep(tm, tid) == tm

\* if self.timeout_id is not None: gobject.source_remove(self.timeout_id)
CancelPrevious(tm, tid) == IF tid # None THEN tm \ {tid} ELSE tm

\* The coordinator as the handlers read and write it.
Self ==
    [timeout_id |-> timeout_id, dstat_remote |-> dstat_remote,
     dropbot_dx_remote |-> dropbot_dx_remote, timers |-> timers,
     board |-> board, calls |-> <<>>, raised |-> FALSE, ret |-> TRUE]

\* The try/except of on_step_run; id is the new session and timer handle.
StartAcquisition(self, in, id) ==
    LET rm == IF self.timeout_id # None
              THEN <<Ev("source_remove", "-", "-",
                        BoolStr(self.timeout_id \in self.timers))>>
              ELSE <<>>
        tm == CancelPrevious(self.timers, self.timeout_id)
    IN  IF in.create = "raise" THEN
            [self EXCEPT !.timers = tm,
                         !.calls = @ \o rm \o
                             <<Ev("DstatRemote", "-", "-", "raise"),
                               Emit("Fail")>>]
        ELSE IF in.start = "raise" THEN
            [self EXCEPT !.timers = tm, !.dstat_remote = id,
                         !.calls = @ \o rm \o
                             <<Ev("DstatRemote", "-", "-", "ok"),
                               Ev("start_acquisition", "-", "-", "raise"),
                               Emit("Fail")>>]
        ELSE
            [self EXCEPT !.timers = tm \cup {id}, !.dstat_remote = id,
                         !.timeout_id = id,
                         !.calls = @ \o rm \o
                             <<Ev("DstatRemote", "-", "-", "ok"),
                               Ev("start_acquisition", "-", "-", "ok"),
                               Ev("timeout_add", "-", "-", "-")>>]

\* light_enabled passed with the same sense as dstat_enabled.
DesiredLight_Same(in) == in.dstat_enabled

\* light_enabled=not options['dstat_enabled']
DesiredLight(in) == ~in.dstat_enabled

\* on_step_run that returns once it has emitted 'Fail' for the state update.
AfterApply_ReturnOnFail(s1, in, id) ==
    IF in.apply = "false" THEN s1
    ELSE IF in.dstat_enabled THEN StartAcquisition(s1, in, id)
    ELSE [s1 EXCEPT !.calls = @ \o <<Emit("None")>>]

\* if options['dstat_enabled']: ... else: ..., reached whatever update_state
\* returned.
AfterApply(s1, in, id) ==
    IF in.dstat_enabled THEN StartAcquisition(s1, in, id)
    ELSE [s1 EXCEPT !.calls = @ \o <<Emit("None")>>]

on_step_run(self, in, id) ==
    IF connected(self.dropbot_dx_remote) THEN
        LET light == DesiredLight(in)
            upd == Ev("update_state", BoolStr(light),
                      BoolStr(in.magnet_engaged), in.apply)
        IN  IF in.apply = "raise" THEN
                \* outside any try: the exception leaves on_step_run
                [self EXCEPT !.calls = <<upd>>, !.raised = TRUE]
            ELSE
                LET s1 == [self EXCEPT
                             !.board = BoardAfter(@, light,
                                                  in.magnet_engaged, in.apply),
                             !.calls = <<upd>> \o
                                 (IF in.apply = "false"
                                  THEN <<Emit("Fail")>> ELSE <<>>)]
                IN  AfterApply(s1, in, id)
    ELSE [self EXCEPT !.calls = <<Emit("None")>>]

\* ------------------------------------------------------ remote_check_tick
\* A tick that calls reset() whenever acquisition_complete returned.
TickCalls_ResetAlways(remote, in) ==
    <<Ev("acquisition_complete", "-", "-", in.poll)>>
    \o (IF in.poll # "raise"
        THEN <<Ev("reset", "-", "-", in.reset)>> ELSE <<>>)
    \o (IF in.poll = "true" /\ in.reset = "ok" /\ remote # NoRemote
        THEN <<Ev("update_state", "True", "unchanged", in.light)>>
        ELSE <<>>)

\* The calls a tick makes on the session and the board before it emits.
TickCalls(remote, in) ==
    <<Ev("acquisition_complete", "-", "-", in.poll)>>
    \o (IF in.poll = "true"
        THEN <<Ev("reset", "-", "-", in.reset)>> ELSE <<>>)
    \o (IF in.poll = "true" /\ in.reset = "ok" /\ remote # NoRemote
        THEN <<Ev("update_state", "True", "unchanged", in.light)>>
        ELSE <<>>)

\* A tick that raises when the light re-enable returned true.
TickOutcome_Negated(remote, in) ==
    IF in.poll = "true" /\ in.reset = "ok" /\ remote # NoRemote
       /\ in.light = "false"
    THEN "None" ELSE "Fail"

\* A tick whose except branch reports a normal completion.
TickOutcome_SwallowError(remote, in) ==
    IF in.poll = "raise" THEN "None"
    ELSE IF in.poll = "true" /\ in.reset = "ok" /\ remote # NoRemote
            /\ in.light = "true"
    THEN "None" ELSE "Fail"

\* The value a tick emits once acquisition_complete did not return false.
TickOutcome(remote, in) ==
    IF in.poll = "true" /\ in.reset = "ok" /\ remote # NoRemote
       /\ in.light = "true"
    THEN "None" ELSE "Fail"

remote_check_tick(self, in) ==
    IF self.dstat_remote # None THEN
        IF in.poll = "false" THEN
            [self EXCEPT !.calls = TickCalls(self.dropbot_dx_remote, in)]
        ELSE
            LET cs == TickCalls(self.dropbot_dx_remote, in) IN
            [self EXCEPT
                !.board = IF Ev("update_state", "True", "unchanged", "true")
                              \in Range(cs)
                          THEN [@ EXCEPT !.light = TRUE] ELSE @,
                !.calls = cs \o
                    <<Emit(TickOutcome(self.dropbot_dx_remote, in))>>,
                !.timeout_id = None, !.dstat_remote = None, !.ret = FALSE]
    ELSE self

\* ------------------------------------------------------------------- state
NoLast ==
    [handler |-> "init", dstat |-> FALSE, magnet |-> FALSE, ret |-> TRUE]

\* DropbotDxPlugin.__init__; the board is as powered up, light off ("turn on
\* the light by default" is connect's job) and magnet released.
Init ==
    /\ timeout_id = None
    /\ dstat_remote = None
    /\ dropbot_dx_remote = NoRemote
    /\ initialized = FALSE
    /\ enabled = FALSE
    /\ timers = {}
    /\ board = [light |-> FALSE, magnet |-> FALSE]
    /\ step = 0
    /\ emitted = <<>>
    /\ outcomes = [s \in Steps |-> <<>>]
    /\ applyFailed = {}
    /\ last = NoLast
    /\ calls = <<>>
    /\ raised = FALSE
    /\ dialog = 0

\* The entry of `last` for a handler; on_step_run adds the step's options and
\* remote_check_tick what it returned.
Invoked(name) == [NoLast EXCEPT !.handler = name]

\* Pass k of connect() opens the board and finds the versions differing: it
\* calls yesno().
AsksUser(as, k) == Len(as) >= k /\ as[k].open = "ok" /\ ~as[k].match

RECURSIVE AskedCalls(_)
\* The calls of connect() up to the yesno() of pass k: every earlier pass
\* was answered yes, flashed and reconnected.
AskedCalls(k) ==
    IF k = 1 THEN <<Ev("SerialProxy", "-", "-", "ok")>>
    ELSE <<Ev("SerialProxy", "-", "-", "ok"), Ev("yesno", "-", "-", "yes"),
           Ev("get_firmwares", "-", "-", "ok"),
           Ev("upload_firmware", "-", "-", "ok"),
           Ev("connect", "-", "-", "-")>> \o AskedCalls(k - 1)

\* connect() reaches the yesno() of pass k: self.dropbot_dx_remote is the
\* handle just opened, and the dialog runs the main loop, which dispatches
\* the registered timeout until the user answers.
WaitInYesno(k) ==
    /\ dialog' = k
    /\ dropbot_dx_remote' = "live"
    /\ calls' = AskedCalls(k)
    /\ raised' = FALSE
    /\ last' = Invoked("yesno")
    /\ UNCHANGED <<timeout_id, dstat_remote, initialized, enabled, timers,
                   board, step, emitted, outcomes, applyFailed>>

\* connect() runs to its end with the passes as, and on_plugin_enable
\* builds the menu (not modelled).
FinishEnable(as) ==
    LET r == connect(dropbot_dx_remote, as) IN
    /\ dialog' = 0
    /\ dropbot_dx_remote' = r.remote
    /\ board' = LightAfter(board, r.calls)
    /\ initialized' = (initialized \/ ~r.raised)
    /\ enabled' = ~r.raised
    /\ calls' = r.calls
    /\ raised' = r.raised
    /\ last' = Invoked("on_plugin_enable")
    /\ UNCHANGED <<timeout_id, dstat_remote, timers, step, emitted, outcomes,
                   applyFailed>>

\* on_plugin_enable: connect(), up to its end or to the first yesno().
OnPluginEnable ==
    /\ ~enabled
    /\ dialog = 0
    /\ \E as \in ConnectInputs :
         IF AsksUser(as, 1) THEN WaitInYesno(1) ELSE FinishEnable(as)

\* The user answers the yesno() of pass `dialog`: connect() goes on, to its
\* end or, after a flash and a reconnect, to the yesno() of the next pass.
AnswerYesno ==
    /\ dialog > 0
    /\ \E as \in ConnectInputs :
         /\ AsksUser(as, dialog)
         /\ IF AsksUser(as, dialog + 1) THEN WaitInYesno(dialog + 1)
            ELSE FinishEnable(as)

\* on_plugin_disable: terminate() on the handle, which stays referenced.
OnPluginDisable ==
    /\ enabled
    /\ dialog = 0
    /\ dropbot_dx_remote' =
           IF connected(dropbot_dx_remote) THEN "terminated"
           ELSE dropbot_dx_remote
    /\ calls' = IF connected(dropbot_dx_remote)
                THEN <<Ev("terminate", "-", "-", "-")>> ELSE <<>>
    /\ enabled' = FALSE
    /\ raised' = FALSE
    /\ last' = Invoked("on_plugin_disable")
    /\ UNCHANGED <<timeout_id, dstat_remote, initialized, timers, board, step,
                   emitted, outcomes, applyFailed, dialog>>

\* The host runs the next step: on_step_run with the step's options.
OnStepRun ==
    /\ enabled
    /\ dialog = 0
    /\ step < MaxSteps
    /\ \E magnet_engaged \in BOOLEAN, dstat_enabled \in BOOLEAN,
          apply \in UpdateResults(dropbot_dx_remote),
          create \in {"ok", "raise"}, start \in {"ok", "raise"} :
         LET in == [magnet_engaged |-> magnet_engaged,
                    dstat_enabled |-> dstat_enabled, apply |-> apply,
                    create |-> create, start |-> start]
             r == on_step_run(Self, in, step + 1)
         IN  /\ timeout_id' = r.timeout_id
             /\ dstat_remote' = r.dstat_remote
             /\ timers' = r.timers
             /\ board' = r.board
             /\ calls' = r.calls
             /\ raised' = r.raised
             /\ emitted' = EmittedBy(r.calls)
             /\ outcomes' = [outcomes EXCEPT ![step + 1] = EmittedBy(r.calls)]
             /\ applyFailed' =
                    IF \E i \in 1..Len(r.calls) :
                          r.calls[i][1] = "update_state"
                          /\ r.calls[i][4] = "false"
                    THEN applyFailed \cup {step + 1} ELSE applyFailed
             /\ last' = [Invoked("on_step_run") EXCEPT
                             !.dstat = dstat_enabled,
                             !.magnet = magnet_engaged]
    /\ step' = step + 1
    /\ UNCHANGED <<dropbot_dx_remote, initialized, enabled, dialog>>

\* The timer h fires: remote_check_tick, deregistered when it returns False.
\* Handle h was registered by step h, whose outcome the tick reports.
Tick(h, in) ==
    LET r == remote_check_tick(Self, in) IN
    /\ timeout_id' = r.timeout_id
    /\ dstat_remote' = r.dstat_remote
    /\ timers' = IF r.ret THEN r.timers ELSE r.timers \ {h}
    /\ board' = r.board
    /\ calls' = r.calls
    /\ raised' = r.raised
    /\ emitted' = emitted \o EmittedBy(r.calls)
    /\ outcomes' = [outcomes EXCEPT ![h] = @ \o EmittedBy(r.calls)]
    /\ last' = [Invoked("remote_check_tick") EXCEPT !.ret = r.ret]
    /\ UNCHANGED <<dropbot_dx_remote, initialized, enabled, step, applyFailed,
                   dialog>>

TickInputs(polls) ==
    [poll : polls, reset : {"ok", "raise"},
     light : UpdateResults(dropbot_dx_remote)]

RemoteCheckTick ==
    \E h \in timers : \E in \in TickInputs({"false", "true", "raise"}) :
        Tick(h, in)

\* A tick on which acquisition_complete returns true or raises.
TickFinishing ==
    \E h \in timers : \E in \in TickInputs({"true", "raise"}) : Tick(h, in)

Next ==
    \/ OnPluginEnable
    \/ AnswerYesno
    \/ OnPluginDisable
    \/ OnStepRun
    \/ RemoteCheckTick

Spec == Init /\ [][Next]_vars

\* The main loop keeps firing a registered timeout and the acquisition ends.
FairSpec == Spec /\ WF_vars(TickFinishing)

\* remote_check_tick run while no session is referenced.  No timer of the
\* coordinator fires in such a state (timers is empty whenever dstat_remote
\* is None), so this is the method called on its own; nothing is deregistered
\* on its return.
DirectTick ==
    /\ dstat_remote = None
    /\ \E in \in TickInputs({"false", "true", "raise"}) :
         LET r == remote_check_tick(Self, in) IN
         /\ timeout_id' = r.timeout_id
         /\ dstat_remote' = r.dstat_remote
         /\ timers' = r.timers
         /\ board' = r.board
         /\ calls' = r.calls
         /\ raised' = r.raised
         /\ emitted' = emitted \o EmittedBy(r.calls)
         /\ last' = [Invoked("remote_check_tick") EXCEPT !.ret = r.ret]
    /\ UNCHANGED <<dropbot_dx_remote, initialized, enabled, step, outcomes,
                   applyFailed, dialog>>

DirectNext ==
    \/ OnPluginEnable
    \/ AnswerYesno
    \/ OnPluginDisable
    \/ OnStepRun
    \/ RemoteCheckTick
    \/ DirectTick

\* The program together with direct calls of remote_check_tick.
DirectSpec == Init /\ [][DirectNext]_vars

\* ================================================================= claims
LastIs(name) == last.handler = name
Called(e) == e \in Range(calls)
\* Positions of the update_state(light_enabled=True) calls of the last handler.
LightCalls ==
    {i \in 1..Len(calls) : /\ calls[i][1] = "update_state"
                           /\ calls[i][2] = "True"
                           /\ calls[i][3] = "unchanged"}
PollRaised == LastIs("remote_check_tick")
              /\ Called(Ev("acquisition_complete", "-", "-", "raise"))
PollTrue == LastIs("remote_check_tick")
            /\ Called(Ev("acquisition_complete", "-", "-", "true"))
StartFailed == LastIs("on_step_run")
               /\ \/ Called(Ev("DstatRemote", "-", "-", "raise"))
                  \/ Called(Ev("start_acquisition", "-", "-", "raise"))

\* C1: between one on_step_run invocation and the next, on_step_complete is
\* emitted at most once, counting what on_step_run emits itself and what the
\* ticks fired since then emit.
C1_AtMostOneOutcome == Len(emitted) <= 1

\* C2: every step that on_step_run was invoked for eventually gets an
\* outcome, when registered timers keep firing and the acquisition ends.
\* Stated for the case the claim singles out: a step that is polling (its
\* timer is registered) eventually gets an outcome, also when on_step_run is
\* invoked again before its acquisition has completed.
C2_EveryStepGetsOutcome ==
    \A s \in Steps : (s \in timers) ~> (outcomes[s] # <<>>)

\* C3: in every reachable state at most one poll callback is registered with
\* the timer service.
C3_AtMostOneTimer == Cardinality(timers) <= 1

\* C3 witness: a dstat step was started while the previous step's timer was
\* still registered; that timer was removed and the new one is the only one.
C3_Witness ==
    /\ LastIs("on_step_run")
    /\ Called(Ev("source_remove", "-", "-", "True"))
    /\ Called(Ev("timeout_add", "-", "-", "-"))
    /\ Cardinality(timers) = 1

\* C4: whenever on_step_run is invoked, no timer that was registered before
\* the call is still registered when it returns, on every branch of the new
\* step.
C4_NewStepCancelsPreviousTimer ==
    [][step' # step => timers \cap timers' = {}]_vars

\* C5: neither on_step_run nor remote_check_tick ever ends by propagating an
\* exception to the host.
C5_NoExceptionEscapes ==
    (LastIs("on_step_run") \/ LastIs("remote_check_tick")) => ~raised

\* C6: a step whose update_state call in on_step_run returned false has the
\* outcome 'Fail', and None is never emitted for it, neither by on_step_run
\* nor by a later tick of its timer.
C6_FailedApplyMeansFail ==
    \A s \in applyFailed :
        /\ "Fail" \in Range(outcomes[s])
        /\ "None" \notin Range(outcomes[s])

\* C7: when creating the session or start_acquisition raises, on_step_run
\* emits 'Fail' and on return no timer is registered and the session
\* reference is cleared.
C7_StartFailureCleansUp ==
    StartFailed =>
        /\ Called(Emit("Fail"))
        /\ timers = {}
        /\ dstat_remote = None

\* C8: on a tick where acquisition_complete raises, update_state with
\* light_enabled=True (magnet unchanged) is called before 'Fail' is emitted.
C8_LightRestoredBeforeFail ==
    PollRaised =>
        \E i \in LightCalls : \E j \in Emits(calls) :
            i < j /\ calls[j] = Emit("Fail")

\* C9: on a tick where acquisition_complete returns true, reset()
\* is called exactly once, then update_state(light_enabled=True) is called;
\* None is emitted if that returned true and 'Fail' if it returned false,
\* exactly one of the two; session and timer handle are cleared and the tick
\* returns False.
C9_CompletionTick ==
    PollTrue =>
        /\ Cardinality({i \in 1..Len(calls) : calls[i][1] = "reset"}) = 1
        /\ \E i \in 1..Len(calls) : \E j \in LightCalls :
               calls[i][1] = "reset" /\ i < j
        /\ \A j \in LightCalls :
               /\ calls[j][4] = "true" => EmittedBy(calls) = <<"None">>
               /\ calls[j][4] = "false" => EmittedBy(calls) = <<"Fail">>
        /\ Len(EmittedBy(calls)) = 1
        /\ dstat_remote = None /\ timeout_id = None /\ ~last.ret

\* C10: on_step_run invoked while the board is not connected emits None
\* before it returns and does nothing else: no update_state call, no session
\* created or started, no timer registered, whatever the step's options.
C10_NotConnectedStep ==
    [][(step' # step /\ dropbot_dx_remote = NoRemote) =>
          /\ calls' = <<Emit("None")>>
          /\ emitted' = <<"None">>
          /\ ~raised'
          /\ timers' = timers
          /\ timeout_id' = timeout_id
          /\ dstat_remote' = dstat_remote
          /\ board' = board]_vars

\* C10 witness: a step with dstat_enabled and magnet_engaged set was run
\* while the board was not connected.
C10_Witness ==
    /\ LastIs("on_step_run")
    /\ dropbot_dx_remote = NoRemote
    /\ last.dstat /\ last.magnet
    /\ emitted = <<"None">>

\* The last handler was an on_step_run that started polling after a
\* successful update_state.
StartedPolling ==
    /\ LastIs("on_step_run")
    /\ \E i \in 1..Len(calls) :
           calls[i][1] = "update_state" /\ calls[i][4] = "true"
    /\ Called(Ev("timeout_add", "-", "-", "-"))
PollFalse == LastIs("remote_check_tick")
             /\ Called(Ev("acquisition_complete", "-", "-", "false"))
\* A completion tick on which reset() and the light re-enable succeeded.
CompletedOk ==
    /\ PollTrue
    /\ Called(Ev("reset", "-", "-", "ok"))
    /\ Called(Ev("update_state", "True", "unchanged", "true"))

\* C11: for a step with the board connected, dstat_enabled, update_state
\* returning true and start succeeding, on_step_run emits nothing and leaves
\* exactly one timer registered, its own; a tick on which
\* acquisition_complete returns false emits nothing and leaves the step
\* without an outcome; the tick on which it returns true (reset and light
\* re-enable succeeding) emits None as that step's only outcome, and after
\* it no timer is registered.
C11_OutcomeOnlyAfterCompletion ==
    [][/\ StartedPolling' /\ step' # step =>
            /\ EmittedBy(calls') = <<>>
            /\ outcomes'[step'] = <<>>
            /\ timers' = {step'}
       /\ PollFalse' =>
            /\ EmittedBy(calls') = <<>>
            /\ outcomes' = outcomes
            /\ emitted' = emitted
       /\ (CompletedOk' /\ timers # {}) =>
            /\ EmittedBy(calls') = <<"None">>
            /\ \A h \in timers :
                   /\ outcomes'[h] = outcomes[h] \o <<"None">>
                   /\ h \notin applyFailed => outcomes'[h] = <<"None">>
            /\ timers' = {}]_vars

\* C11 witness: the completion tick of a step whose update_state returned
\* true has emitted None, the step's only outcome, and no timer is left.
C11_Witness ==
    /\ CompletedOk
    /\ \E s \in Steps : s \notin applyFailed /\ outcomes[s] = <<"None">>
                        /\ timeout_id = None
    /\ timers = {}
    /\ emitted = <<"None">>

\* Positions of the update_state calls of the last handler.
UpdateCalls == {i \in 1..Len(calls) : calls[i][1] = "update_state"}
ConnectedStep == LastIs("on_step_run") /\ dropbot_dx_remote # NoRemote

\* C12: with the board connected and dstat_enabled false, on_step_run calls
\* update_state exactly once, with light_enabled true and magnet_engaged the
\* step's option; when it returns true, on_step_run emits None and nothing
\* else, before it returns, creates no session and registers no timer.
C12_SynchronousStep ==
    (ConnectedStep /\ ~last.dstat) =>
        /\ UpdateCalls = {1}
        /\ calls[1][2] = "True"
        /\ calls[1][3] = BoolStr(last.magnet)
        /\ \A i \in 1..Len(calls) :
               calls[i][1] \notin {"DstatRemote", "start_acquisition",
                                   "timeout_add", "source_remove"}
        /\ calls[1][4] = "true" =>
               /\ calls = <<calls[1], Emit("None")>>
               /\ outcomes[step] = <<"None">>
               /\ board = [light |-> TRUE, magnet |-> last.magnet]

\* C12 witness: a step with dstat_enabled false and magnet_engaged true on a
\* connected board, update_state(light=True, magnet=True) returning true.
C12_Witness ==
    /\ ConnectedStep
    /\ calls = <<Ev("update_state", "True", "True", "true"), Emit("None")>>
    /\ emitted = <<"None">>

\* The last handler was an on_step_run whose update_state returned false.
ApplyReturnedFalse ==
    /\ LastIs("on_step_run")
    /\ Len(calls) >= 1
    /\ calls[1][1] = "update_state" /\ calls[1][4] = "false"

\* C13: when update_state returns false, on_step_run emits 'Fail' and goes
\* on: with dstat_enabled false it emits None as well; with dstat_enabled
\* true it removes a pending timer, creates and starts the session and, when
\* the start succeeds, registers the poll timer.
C13_FallThrough ==
    ApplyReturnedFalse =>
        /\ calls[2] = Emit("Fail")
        /\ ~last.dstat => calls = <<calls[1], Emit("Fail"), Emit("None")>>
        /\ last.dstat =>
               /\ \E i \in 3..Len(calls) : calls[i][1] = "DstatRemote"
               /\ timers \subseteq {step}
               /\ Called(Ev("DstatRemote", "-", "-", "ok")) =>
                      /\ \E i \in 3..Len(calls) :
                             calls[i][1] = "start_acquisition"
                      /\ dstat_remote = step
               /\ Called(Ev("start_acquisition", "-", "-", "ok")) =>
                      /\ calls[Len(calls)] = Ev("timeout_add", "-", "-", "-")
                      /\ timers = {step}
                      /\ timeout_id = step

\* C13 witness: update_state returned false for a dstat step run while the
\* previous step's timer was pending; that timer was removed, the session
\* started and the new timer registered.
C13_Witness ==
    /\ ApplyReturnedFalse
    /\ last.dstat
    /\ Called(Ev("source_remove", "-", "-", "True"))
    /\ Called(Ev("timeout_add", "-", "-", "-"))
    /\ timers = {step}

\* C14: connect() returns normally to its caller whatever the outcome of
\* opening the link, the version comparison, the user's answer, the flash
\* and the reconnection; a transport failure on opening leaves the board
\* link disconnected.  Stated for the passes in which the flash itself
\* (get_firmwares, upload_firmware) does not raise, which include the
\* reconnection that fails with a transport error.
C14_ConnectNeverRaises ==
    (/\ LastIs("on_plugin_enable")
     /\ ~Called(Ev("get_firmwares", "-", "-", "raise"))
     /\ ~Called(Ev("upload_firmware", "-", "-", "raise"))) =>
        /\ ~raised
        /\ calls = <<Ev("SerialProxy", "-", "-", "ioerror")>> =>
               dropbot_dx_remote = NoRemote

\* C15: once the board has been disconnected for flashing (upload_firmware
\* is called), a reconnection attempt (connect) follows, whether the upload
\* succeeds or fails.
C15_ReconnectAfterFlash ==
    LastIs("on_plugin_enable") =>
        \A i \in 1..Len(calls) :
            calls[i][1] = "upload_firmware" =>
                \E j \in (i + 1)..Len(calls) :
                    calls[j] = Ev("connect", "-", "-", "-")

\* C16: after on_plugin_disable the board link is disconnected: connected()
\* returns false.
C16_DisableDisconnects ==
    LastIs("on_plugin_disable") => ~connected(dropbot_dx_remote)

\* C17: a tick on which acquisition_complete raises emits exactly one
\* outcome, 'Fail', clears the session reference and the timer handle and
\* returns False, so that no timer is left to fire for the step.
C17_PollFailureCleanup ==
    PollRaised =>
        /\ EmittedBy(calls) = <<"Fail">>
        /\ dstat_remote = None
        /\ timeout_id = None
        /\ ~last.ret
        /\ timers = {}

\* C17 witness: acquisition_complete raised on a tick of the second step's
\* timer (ticks that returned false may have come before it).
C17_Witness ==
    /\ PollRaised
    /\ step = 2
    /\ outcomes[2] = <<"Fail">>

\* C18: a tick on which acquisition_complete returns false leaves the
\* session reference, the timer handle, the registered timer and the board's
\* actuators unchanged, calls neither reset nor update_state, emits nothing
\* and returns True.
C18_FalsePollChangesNothing ==
    [][PollFalse' =>
          /\ calls' = <<Ev("acquisition_complete", "-", "-", "false")>>
          /\ last'.ret
          /\ dstat_remote' = dstat_remote /\ dstat_remote' # None
          /\ timeout_id' = timeout_id
          /\ timers' = timers /\ timers' # {}
          /\ board' = board
          /\ dropbot_dx_remote' = dropbot_dx_remote
          /\ emitted' = emitted /\ outcomes' = outcomes]_vars

\* C18 witness: a tick returned True after acquisition_complete returned
\* false; its timer is still registered and the session still referenced.
C18_Witness ==
    /\ PollFalse
    /\ last.ret
    /\ timers = {timeout_id}
    /\ dstat_remote # None

\* C19: whenever remote_check_tick runs while the session reference is
\* absent, it returns False (do not reschedule).
C19_NoSessionTickCancels ==
    (LastIs("remote_check_tick") /\ calls = <<>>) => ~last.ret

\* C20: the stored timer handle is non-empty exactly when it is registered
\* with the timer service, and source_remove is never called on a handle
\* that is no longer registered.
C20_HandleConsistency ==
    /\ (timeout_id # None) <=> (timeout_id \in timers)
    /\ ~Called(Ev("source_remove", "-", "-", "False"))

====
